---- MODULE Spec2Model ----
(***************************************************************************)
(* Flight-mode state machine of KIMCHI (free / auto / menu), its render    *)
(* loop, the auto-flight maneuver (pan, then translate) and the free       *)
(* flight tick, modelled from app/scripts/kimchi.flight.js,                *)
(* app/scripts/kimchi.space.Body.js and public/js/kimchi.utils.js.         *)
(*                                                                         *)
(* Geometry is one-dimensional: the camera and the bodies live on the      *)
(* x axis, an orientation is an angle between 0 (looking towards +x) and   *)
(* HalfTurn (looking towards -x).  Fractions are fixed point: a clock      *)
(* delta d stands for d / DeltaDen seconds.  The interpolation parameter   *)
(* t of the pan is an IEEE-754 double, kept exactly (see the Dbl section). *)
(***************************************************************************)
EXTENDS Integers, Sequences, FiniteSets, TLC

\* ------------------------------------------------------------------ bounds
MaxLoops == 2      \* pending render loops per mode the model follows
MaxPos == 10       \* the camera stays within -MaxPos .. MaxPos
MaxKeyups == 2     \* pending one-shot keyup handlers the model follows
MaxEvents == 4     \* collaborator events (calls, clicks, keys) in one run
MaxFlightEvents == 2  \* the same, in the runs with free flight
MaxFlights == 2    \* fly-to clicks in the runs of an uninterrupted fly-to
MaxKeyEvents == 3  \* key and mode events in the runs of the keyboard
MaxFreeEvents == 3 \* mode changes in the runs of free flight
MaxLoopEvents == 3 \* mode changes in the runs of the render loop
MaxConfigEvents == 3 \* mode and configuration changes in the runs of the settings
MaxToggleEvents == 3 \* setMode and toggle calls in the runs of Mode.toggle
MaxNameEvents == 3 \* setMode calls in the runs with a name that is no mode
MaxRetargets == 2 \* fly-to clicks in the runs with a fly-to in mid-flight
MaxRadius == 15    \* the largest radius (in au) of a constructed Body
MaxScale == 8      \* the largest size scale of a Body's main mesh

\* --------------------------------------------------------------- constants
Modes == {"free", "auto", "menu"}
\* a name that is no key of flight.modes
UnknownMode == "warp"
Unset == ""
Esc == 27
OtherKey == 65
Keys == {Esc, OtherKey}
DeltaDen == 2
Deltas == {1, 3}
ZSpeed == 1
HalfTurn == 4
Inputs == {-1, 0, 1}

\* ------------------------------------------------- IEEE-754 doubles (Dbl)
\* A non-negative double below 2 is an integer multiple of 2^-57; it is kept
\* as two limbs, value = (hi * 2^29 + lo) * 2^-57.
Limb == 536870912
DblZero == [hi |-> 0, lo |-> 0]
DblOne == [hi |-> 268435456, lo |-> 0]
\* 0.05 = 0x1.999999999999ap-5
DblStep == [hi |-> 13421772, lo |-> 429496730]

DblLess(a, b) == a.hi < b.hi \/ (a.hi = b.hi /\ a.lo < b.lo)
DblLeq(a, b) == a = b \/ DblLess(a, b)

\* the spacing of doubles (in units of 2^-57) around a value with high limb hi
DblQuantum(hi) ==
  IF hi >= 268435456 THEN 32
  ELSE IF hi >= 134217728 THEN 16
  ELSE IF hi >= 67108864 THEN 8
  ELSE IF hi >= 33554432 THEN 4
  ELSE IF hi >= 16777216 THEN 2
  ELSE 1

\* a + b rounded to the nearest double, ties to even
DblAdd(a, b) ==
  LET lo0 == a.lo + b.lo
      hi1 == a.hi + b.hi + (lo0 \div Limb)
      lo1 == lo0 % Limb
      q == DblQuantum(hi1)
      rem == lo1 % q
      base == lo1 - rem
      up == 2 * rem > q \/ (2 * rem = q /\ (base \div q) % 2 = 1)
      lo2 == IF up THEN base + q ELSE base
  IN [hi |-> hi1 + (lo2 \div Limb), lo |-> lo2 % Limb]


\* ------------------------------------------------------------------ bodies
BodyNames == {"Sun", "Earth"}
KmPerAu == 10
RadiusInKm == [Sun |-> 20, Earth |-> 10]
Collideable == [Sun |-> TRUE, Earth |-> TRUE]
SizeScale == 1
CameraStart == 4
FlyBodies == {"Earth"}
CameraStarts == {-6, 4}
Period == 2

\* position of a body at a simulated time (the ephemeris table)
Ephemeris(b, time) == IF b = "Sun" THEN 0 ELSE IF time % 2 = 0 THEN 9 ELSE 8

Abs(x) == IF x < 0 THEN -x ELSE x
Min(S) == CHOOSE x \in S : \A y \in S : x <= y

\* Body.prototype: the defaults of the options
BodyPrototype == [k \in {"radiusInKm"} |-> 0]
\* _.assign(this, options): the options given override the defaults
Assign(this, options) ==
  [k \in DOMAIN this |-> IF k \in DOMAIN options THEN options[k] ELSE this[k]]
\* the radius in au of a radius stored in km
RadiusInAu(radiusInKm) == radiusInKm \div KmPerAu
\* new Body(options): this.radius = this.radiusInKm / kmPerAu; scale is the
\* scale of the main mesh, 1 when the mesh is made
Body(options) ==
  LET this == Assign(BodyPrototype, options)
  IN [constructed |-> TRUE,
      radiusInKm |-> this["radiusInKm"],
      radius |-> RadiusInAu(this["radiusInKm"]),
      scale |-> 1]
\* no Body constructed yet
NoBody == [constructed |-> FALSE, radiusInKm |-> 0, radius |-> 0, scale |-> 1]

\* the methods of a Body of the given radius whose main mesh has the given
\* scale
ScaledRadius(radius, scale) == radius * scale
SurfaceCollisionDistanceFixed(radius, scale) == 1
SurfaceCollisionDistance(radius, scale) == ScaledRadius(radius, scale)
CollisionDistance(radius, scale) ==
  ScaledRadius(radius, scale) + SurfaceCollisionDistance(radius, scale)

\* Body.prototype.isColliding for an object at distance d from the centre
IsCollidingAt(d, radius, scale) == d < CollisionDistance(radius, scale)

\* the test of the translate frame, true to keep flying: the earlier frame
\* compares the centre distance minus body.radius with the collision
\* distance, the later frame asks body.isColliding
KeepFlyingEarlierCentre(d, radius, scale) ==
  d >= CollisionDistance(radius, scale)
KeepFlyingEarlier(d, radius, scale) ==
  d - radius >= CollisionDistance(radius, scale)
KeepFlyingLater(d, radius, scale) == ~IsCollidingAt(d, radius, scale)

\* the same for the bodies of the scene, known by name
Radius(b) == RadiusInAu(RadiusInKm[b])
GetScaledRadius(b) == ScaledRadius(Radius(b), SizeScale)
GetSurfaceCollisionDistance(b) == SurfaceCollisionDistance(Radius(b), SizeScale)
GetCollisionDistance(b) == CollisionDistance(Radius(b), SizeScale)
\* distance between the centre of a body and the camera
GetDistance(s, b) == Abs(s.bodyPosition[b] - s.camera.position)
IsCollidingLeq(s, b) == GetDistance(s, b) <= GetCollisionDistance(b)
IsColliding(s, b) == GetDistance(s, b) < GetCollisionDistance(b)

GetCollideableBodies == {b \in BodyNames : Collideable[b]}
\* space.getClosestDistance(bodies): the smallest camera-to-body distance
GetClosestDistance(s, bodies) == Min({GetDistance(s, b) : b \in bodies})
GetTranslationSpeedMultiplier(s, bodies) == GetClosestDistance(s, bodies)

\* space.getClosestDistance(bodies) for any array: with no body in it the
\* call fails or gives +Infinity; a result is [kind, value]
GetClosestDistanceOutcomes(s, bodies) ==
  IF bodies = {}
  THEN {[kind |-> "throws", value |-> 0], [kind |-> "Infinity", value |-> 0]}
  ELSE {[kind |-> "number", value |-> GetClosestDistance(s, bodies)]}

\* the arguments of a getTranslationSpeedMultiplier call: an array of bodies
\* or nothing
MultiplierArgs == [given : BOOLEAN, bodies : SUBSET BodyNames]
ArgName(arg) == IF ~arg.given THEN "omitted"
                ELSE IF arg.bodies = {} THEN "[]" ELSE "[bodies]"
ResultName(r) == IF r.kind = "number" THEN ToString(r.value) ELSE r.kind

\* flight.getTranslationSpeedMultiplier(bodies) as a collaborator calls it:
\* the outcomes of the call
GetTranslationSpeedMultiplierOutcomes(s, arg) ==
  LET bodies == IF ~arg.given THEN GetCollideableBodies ELSE arg.bodies
  IN GetClosestDistanceOutcomes(s, bodies)

\* ------------------------------------------------------------ orientations
\* Matrix4.lookAt(camera.position, body position, up) as a quaternion
LookAt(from, to) == IF to >= from THEN 0 ELSE HalfTurn
\* the world direction of the camera's local -z axis
Forward(q) == IF 2 * q < HalfTurn THEN 1 ELSE -1
\* Quaternion.slerp: t = 0 and t = 1 return the end points exactly
Slerp(qa, qb, t) ==
  IF t = DblZero THEN qa
  ELSE IF t = DblOne THEN qb
  ELSE LET tq == t.hi \div 256
           mag == (Abs(qb - qa) * tq) \div 1048576
       IN IF qb < qa THEN qa - mag ELSE qa + mag

\* ------------------------------------------------------------------- state
VARIABLES
  currentMode,        \* flight.js currentMode
  enabled,            \* Mode.enabled, per mode
  loops,              \* live render loops (pending callbacks) per mode
  autoFrame,          \* which function auto.animationFrame currently is
  maneuver,           \* panTo/translateTo closure: body, quaternions, t
  panExact,           \* history: a pan tick with t = 1 ran in this maneuver
  camera,             \* KIMCHI.camera: position, quaternion
  speed,              \* Mode.speed, per mode
  ui,                 \* hud / controls / overlay / clock / notice
  keydownBound,       \* keydown handlers bound on the document, per owner
  keyups,             \* pending one-shot keyup handlers, in binding order
  keydownInProgress,  \* the keydownInProgress flag of each keydown closure
  config,             \* KIMCHI.config: time-on, rotate-bodies
  time,               \* simulated time (KIMCHI.time)
  bodyPosition,       \* position of each body's main mesh
  pendingTranslate,   \* a time.increment() promise with translateBodies waiting
  events,             \* collaborator events so far (bounds the run only)
  newBody,            \* the Body object constructed last, with its scale
  trace               \* the calls made by the last operation, in order

vars == <<currentMode, enabled, loops, autoFrame, maneuver, panExact, camera,
          speed, ui, keydownBound, keyups, keydownInProgress, config, time,
          bodyPosition, pendingTranslate, events, newBody, trace>>

\* every variable but newBody
flightVars == <<currentMode, enabled, loops, autoFrame, maneuver, panExact,
                camera, speed, ui, keydownBound, keyups, keydownInProgress,
                config, time, bodyPosition, pendingTranslate, events, trace>>

KeyOwners == {"auto", "menu"}

\* the current state as a record, with an empty call trace
Cur ==
  [currentMode |-> currentMode, enabled |-> enabled, loops |-> loops,
   autoFrame |-> autoFrame, maneuver |-> maneuver, panExact |-> panExact,
   camera |-> camera, speed |-> speed, ui |-> ui,
   keydownBound |-> keydownBound, keyups |-> keyups,
   keydownInProgress |-> keydownInProgress, config |-> config, time |-> time,
   bodyPosition |-> bodyPosition, pendingTranslate |-> pendingTranslate,
   trace |-> << >>]

\* the state after an operation; the bounds cut off what the model follows
Commit(s) ==
  /\ \A m \in Modes : s.loops[m] <= MaxLoops
  /\ Abs(s.camera.position) <= MaxPos
  /\ Len(s.keyups) <= MaxKeyups
  /\ currentMode' = s.currentMode
  /\ enabled' = s.enabled
  /\ loops' = s.loops
  /\ autoFrame' = s.autoFrame
  /\ maneuver' = s.maneuver
  /\ panExact' = s.panExact
  /\ camera' = s.camera
  /\ speed' = s.speed
  /\ ui' = s.ui
  /\ keydownBound' = s.keydownBound
  /\ keyups' = s.keyups
  /\ keydownInProgress' = s.keydownInProgress
  /\ config' = s.config
  /\ time' = s.time
  /\ bodyPosition' = s.bodyPosition
  /\ pendingTranslate' = s.pendingTranslate
  /\ newBody' = newBody
  /\ trace' = s.trace

Log(s, kind, arg) == [s EXCEPT !.trace = Append(@, <<kind, arg>>)]

\* the state x of the program, no collaborator event counted yet
Is(x) ==
  /\ currentMode = x.currentMode
  /\ enabled = x.enabled
  /\ loops = x.loops
  /\ autoFrame = x.autoFrame
  /\ maneuver = x.maneuver
  /\ panExact = x.panExact
  /\ camera = x.camera
  /\ speed = x.speed
  /\ ui = x.ui
  /\ keydownBound = x.keydownBound
  /\ keyups = x.keyups
  /\ keydownInProgress = x.keydownInProgress
  /\ config = x.config
  /\ time = x.time
  /\ bodyPosition = x.bodyPosition
  /\ pendingTranslate = x.pendingTranslate
  /\ events = 0
  /\ newBody = NoBody
  /\ trace = x.trace

\* the state once the scripts are loaded, before the first setMode call
InitState ==
  [currentMode |-> Unset,
   enabled |-> [m \in Modes |-> FALSE],
   loops |-> [m \in Modes |-> 0],
   autoFrame |-> "noop",
   maneuver |-> [body |-> "Sun", initialQuaternion |-> 0,
                 targetQuaternion |-> 0, t |-> DblZero],
   panExact |-> FALSE,
   camera |-> [position |-> CameraStart, quaternion |-> 0],
   speed |-> [m \in Modes |-> 0],
   ui |-> [hud |-> FALSE, controls |-> FALSE, overlay |-> TRUE,
           clock |-> FALSE, notice |-> ""],
   keydownBound |-> [o \in KeyOwners |-> 0],
   keyups |-> << >>,
   keydownInProgress |-> [o \in KeyOwners |-> FALSE],
   config |-> [timeOn |-> TRUE, rotateBodies |-> TRUE],
   time |-> 0,
   bodyPosition |-> [b \in BodyNames |-> Ephemeris(b, 0)],
   pendingTranslate |-> FALSE,
   trace |-> << >>]

Init == Is(InitState)

\* ---------------------------------------------------------- mode lifecycle
\* KIMCHI.rendering.animate(callback): one more pending callback for mode m
ModeAnimate(s, m) == Log([s EXCEPT !.loops[m] = @ + 1], "animate", m)

\* Mode.prototype.enable / Mode.prototype.disable
ModeEnable(s, m) ==
  ModeAnimate([Log(s, "enable", m) EXCEPT !.enabled[m] = TRUE], m)
ModeDisableKeep(s, m) == Log(s, "disable", m)
ModeDisable(s, m) == [Log(s, "disable", m) EXCEPT !.enabled[m] = FALSE]

\* the enable() override of each mode
Enable(s, m) ==
  LET b == ModeEnable(s, m)
  IN CASE m = "free" -> [b EXCEPT !.ui.hud = TRUE, !.ui.controls = TRUE]
       [] m = "auto" -> [b EXCEPT !.keydownBound["auto"] = @ + 1]
       [] m = "menu" ->
            [Log(b, "panel.update", "") EXCEPT
               !.ui.clock = FALSE, !.ui.overlay = TRUE,
               !.keydownBound["menu"] = @ + 1]

\* the disable() override of each mode
DisableResetsSpeed(s, m) ==
  LET b == [ModeDisable(s, m) EXCEPT !.speed[m] = 0]
  IN CASE m = "free" -> [b EXCEPT !.ui.controls = FALSE, !.ui.hud = FALSE]
       [] m = "auto" -> [b EXCEPT !.ui.notice = "",
                                  !.keydownBound["auto"] = 0]
       [] m = "menu" -> [b EXCEPT !.ui.overlay = FALSE, !.ui.clock = TRUE,
                                  !.keydownBound["menu"] = 0]
DisableKeepsHud(s, m) ==
  LET b == ModeDisable(s, m)
  IN CASE m = "free" -> [b EXCEPT !.ui.controls = FALSE]
       [] m = "auto" -> [b EXCEPT !.ui.notice = "",
                                  !.keydownBound["auto"] = 0]
       [] m = "menu" -> [b EXCEPT !.ui.overlay = FALSE, !.ui.clock = TRUE,
                                  !.keydownBound["menu"] = 0]
Disable(s, m) ==
  LET b == ModeDisable(s, m)
  IN CASE m = "free" -> [b EXCEPT !.ui.controls = FALSE, !.ui.hud = FALSE]
       [] m = "auto" -> [b EXCEPT !.ui.notice = "",
                                  !.keydownBound["auto"] = 0]
       [] m = "menu" -> [b EXCEPT !.ui.overlay = FALSE, !.ui.clock = TRUE,
                                  !.keydownBound["menu"] = 0]

\* the arguments of Mode.prototype.toggle: true, false, or no boolean
ToggleArgs == {"true", "false", "none"}

\* Mode.prototype.toggle(enable), called on mode m; enable() and disable()
\* are the overrides of m
Toggle(s, m, arg) ==
  LET s0 == Log(Log(s, "toggle", m), "toggleArg", arg)
  IN IF arg \in {"true", "false"}
     THEN IF arg = "true" THEN Enable(s0, m) ELSE Disable(s0, m)
     ELSE IF s0.enabled[m] THEN Enable(s0, m) ELSE Disable(s0, m)

\* flight.setMode(name), name one of the three modes
SetModeNoCheck(s, name) ==
  LET s0 == Log(s, "setMode", name)
      s1 == IF s.currentMode \in Modes THEN Disable(s0, s.currentMode) ELSE s0
      s2 == Enable(s1, name)
  IN Log([s2 EXCEPT !.currentMode = name], "currentMode", name)
SetModeNoDisable(s, name) ==
  LET s0 == Log(s, "setMode", name)
  IN IF s.currentMode = name THEN s0
     ELSE Log([Enable(s0, name) EXCEPT !.currentMode = name],
              "currentMode", name)
SetModeNoPointer(s, name) ==
  LET s0 == Log(s, "setMode", name)
      prevName == s.currentMode
  IN IF prevName = name THEN s0
     ELSE Enable(IF prevName \in Modes THEN Disable(s0, prevName) ELSE s0,
                 name)
SetModeEnableFirst(s, name) ==
  LET s0 == Log(s, "setMode", name)
      prevName == s.currentMode
  IN IF prevName = name THEN s0
     ELSE LET s1 == Enable(s0, name)
              s2 == IF prevName \in Modes THEN Disable(s1, prevName) ELSE s1
          IN Log([s2 EXCEPT !.currentMode = name], "currentMode", name)
\* flight.setMode(name) for any name: flight.modes[name].enable() throws a
\* TypeError for a name that is no mode, after disable() of the previous
\* mode and before the assignment to currentMode
SetMode(s, name) ==
  LET s0 == Log(s, "setMode", name)
      prevName == s.currentMode
  IN IF prevName = name THEN s0
     ELSE LET s1 == IF prevName \in Modes THEN Disable(s0, prevName) ELSE s0
          IN IF name \notin Modes THEN Log(s1, "throws", "TypeError")
             ELSE Log([Enable(s1, name) EXCEPT !.currentMode = name],
                      "currentMode", name)

\* flight.getSpeed(): the speed field of the current mode
FlightGetSpeed(s) == s.speed[s.currentMode]

\* ------------------------------------------------------------- auto flight
\* update(delta): move the bodies' children, update the hud
Update(s) == Log(Log(s, "moveBodyChildren", ""), "hud.update", "")

\* panTo(body): capture the quaternions, reset t, install the pan frame
PanToKeepsT(s, body) ==
  [s EXCEPT !.maneuver =
              [body |-> body,
               initialQuaternion |-> s.camera.quaternion,
               targetQuaternion |->
                 LookAt(s.camera.position, s.bodyPosition[body]),
               t |-> s.maneuver.t],
            !.autoFrame = "pan",
            !.panExact = FALSE]
PanTo(s, body) ==
  [s EXCEPT !.maneuver =
              [body |-> body,
               initialQuaternion |-> s.camera.quaternion,
               targetQuaternion |->
                 LookAt(s.camera.position, s.bodyPosition[body]),
               t |-> DblZero],
            !.autoFrame = "pan",
            !.panExact = FALSE]

\* translateTo(body): install the translate frame
TranslateToByTransition(s, body) ==
  [ModeEnable(ModeDisable(s, "auto"), "auto")
     EXCEPT !.autoFrame = "translate", !.maneuver.body = body]
TranslateTo(s, body) ==
  [s EXCEPT !.autoFrame = "translate", !.maneuver.body = body]

\* auto.flyTo(body)
FlyToKeepsTime(s, body) ==
  PanTo([Log(s, "flyTo", body) EXCEPT !.ui.notice = body], body)
FlyTo(s, body) ==
  PanTo([Log(s, "flyTo", body) EXCEPT !.ui.notice = body,
                                      !.config.timeOn = FALSE], body)

\* the snap at the head of the pan frame: if (t > 1 && t < 1 + 0.05) t = 1
PanSnapNone(t) == t
PanSnap(t) ==
  IF DblLess(DblOne, t) /\ DblLess(t, DblAdd(DblOne, DblStep))
  THEN DblOne ELSE t

\* the animationFrame installed by panTo
PanFrameLate(s, delta) ==
  LET t1 == PanSnap(s.maneuver.t)
      m == s.maneuver
  IN IF DblLeq(t1, DblAdd(DblOne, DblStep))
     THEN [st |-> [Update(Log(s, "slerp", IF t1 = DblOne THEN "1" ELSE "t"))
                     EXCEPT !.camera.quaternion =
                              Slerp(m.initialQuaternion, m.targetQuaternion, t1),
                            !.maneuver.t = DblAdd(t1, DblStep),
                            !.panExact = @ \/ t1 = DblOne],
           ret |-> "undefined"]
     ELSE [st |-> TranslateTo([s EXCEPT !.maneuver.t = t1], m.body),
           ret |-> "undefined"]
PanFrameInPlace(s, delta) ==
  LET t1 == PanSnap(s.maneuver.t)
      m == s.maneuver
      q == Slerp(m.initialQuaternion, m.targetQuaternion, t1)
  IN IF DblLeq(t1, DblOne)
     THEN [st |-> [Update(Log(s, "slerp", IF t1 = DblOne THEN "1" ELSE "t"))
                     EXCEPT !.camera.quaternion = q,
                            !.maneuver.initialQuaternion = q,
                            !.maneuver.t = DblAdd(t1, DblStep),
                            !.panExact = @ \/ t1 = DblOne],
           ret |-> "undefined"]
     ELSE [st |-> TranslateTo([s EXCEPT !.maneuver.t = t1], m.body),
           ret |-> "undefined"]
PanFrame(s, delta) ==
  LET t1 == PanSnap(s.maneuver.t)
      m == s.maneuver
  IN IF DblLeq(t1, DblOne)
     THEN [st |-> [Update(Log(s, "slerp", IF t1 = DblOne THEN "1" ELSE "t"))
                     EXCEPT !.camera.quaternion =
                              Slerp(m.initialQuaternion, m.targetQuaternion, t1),
                            !.maneuver.t = DblAdd(t1, DblStep),
                            !.panExact = @ \/ t1 = DblOne],
           ret |-> "undefined"]
     ELSE [st |-> TranslateTo([s EXCEPT !.maneuver.t = t1], m.body),
           ret |-> "undefined"]

\* translationZ of one translate tick
TranslationZ(s, body, delta) ==
  (ZSpeed * delta * GetTranslationSpeedMultiplier(s, {body})) \div DeltaDen

TranslateFrameToFree(s, delta) ==
  LET body == s.maneuver.body
      translationZ == TranslationZ(s, body, delta)
  IN IF IsColliding(s, body)
     THEN [st |-> SetMode(s, "free"), ret |-> "false"]
     ELSE [st |-> Update(
                    [Log(s, "translateZ", body) EXCEPT
                       !.speed["auto"] = (translationZ * DeltaDen) \div delta,
                       !.camera.position =
                         @ + Forward(s.camera.quaternion) * translationZ]),
           ret |-> "undefined"]
\* the animationFrame installed by translateTo
TranslateFrame(s, delta) ==
  LET body == s.maneuver.body
      translationZ == TranslationZ(s, body, delta)
  IN IF IsColliding(s, body)
     THEN [st |-> SetMode(s, "menu"), ret |-> "false"]
     ELSE [st |-> Update(
                    [Log(s, "translateZ", body) EXCEPT
                       !.speed["auto"] = (translationZ * DeltaDen) \div delta,
                       !.camera.position =
                         @ + Forward(s.camera.quaternion) * translationZ]),
           ret |-> "undefined"]

\* ------------------------------------------------------------- free flight
\* camera.localToWorld(translationVector).sub(camera.position): the world
\* direction of a translation v along the camera's local z axis
LocalToWorld(s, v) == -v * Forward(s.camera.quaternion)

\* raycaster.intersectObjects along the world direction dir: the distance to
\* the near surface of every collideable body ahead of the camera
Intersects(s, dir) ==
  {<<b, GetDistance(s, b) - GetScaledRadius(b)>> :
     b \in {c \in GetCollideableBodies :
              /\ (s.bodyPosition[c] - s.camera.position) * dir > 0
              /\ GetDistance(s, c) >= GetScaledRadius(c)}}

\* the name of a local translation vector in the call trace
InputName(input) == CASE input < 0 -> "-z" [] input = 0 -> "0" [] OTHER -> "+z"

\* colliding(): the translation vector is read, the ray is cast unless the
\* vector has length zero, and the answer is noted in the trace
CollidingAlwaysCasts(s, input) ==
  LET s1 == Log(Log(s, "getLocalTranslationVector", InputName(input)),
                "raycaster.set", "")
      hit == \E b \in GetCollideableBodies : IsColliding(s, b)
  IN [st |-> Log(s1, "colliding", IF hit THEN "true" ELSE "false"),
      ret |-> hit]
CollidingLeq(s, input) ==
  LET s0 == Log(s, "getLocalTranslationVector", InputName(input))
  IN IF input = 0 THEN [st |-> Log(s0, "colliding", "false"), ret |-> FALSE]
     ELSE LET intersects == Intersects(s, LocalToWorld(s, input))
              hit == \E i \in intersects : i[2] <= GetCollisionDistance(i[1])
          IN [st |-> Log(Log(s0, "raycaster.set", ""), "colliding",
                         IF hit THEN "true" ELSE "false"),
              ret |-> hit]
Colliding(s, input) ==
  LET s0 == Log(s, "getLocalTranslationVector", InputName(input))
  IN IF input = 0 THEN [st |-> Log(s0, "colliding", "false"), ret |-> FALSE]
     ELSE LET intersects == Intersects(s, LocalToWorld(s, input))
              hit == \E i \in intersects : i[2] < GetCollisionDistance(i[1])
          IN [st |-> Log(Log(s0, "raycaster.set", ""), "colliding",
                         IF hit THEN "true" ELSE "false"),
              ret |-> hit]

\* controls.moveCamera(delta, multiplier): translate along the local axis
MoveCamera(s, delta, input, multiplier) ==
  [s EXCEPT !.camera.position =
              @ + LocalToWorld(s, input)
                  * ((ZSpeed * delta * multiplier) \div DeltaDen)]

\* getSpeed(delta) of free flight
GetSpeed(s, delta, input) ==
  (Abs(input) * ZSpeed *
     GetTranslationSpeedMultiplier(s, GetCollideableBodies) * DeltaDen)
  \div delta

\* space.translateBodies: every body takes its ephemeris position
TranslateBodies(s) ==
  [Log(s, "translateBodies", "") EXCEPT
     !.bodyPosition = [b \in BodyNames |-> Ephemeris(b, s.time)]]

\* time.increment().done(translateBodies): the promise is either resolved
\* already (the callback runs at once) or resolves later
TimeIncrement(s, sync) ==
  LET s1 == [Log(s, "time.increment", "") EXCEPT
               !.time = (@ + 1) % Period]
  IN IF sync THEN TranslateBodies(s1)
     ELSE [s1 EXCEPT !.pendingTranslate = TRUE]

\* free.animationFrame(delta), its steps in order: move the camera unless
\* colliding, increment the time, rotate the bodies
FreeMoveZeroed(s, delta, input) ==
  LET c == Colliding(s, input)
  IN IF c.ret THEN [c.st EXCEPT !.speed["free"] = 0]
     ELSE LET moved ==
                MoveCamera(Log(c.st, "moveCamera", ""), delta, input,
                  GetTranslationSpeedMultiplier(s, GetCollideableBodies))
          IN [moved EXCEPT !.speed["free"] = GetSpeed(moved, delta, input)]
FreeMove(s, delta, input) ==
  LET c == Colliding(s, input)
  IN IF c.ret THEN c.st
     ELSE LET moved ==
                MoveCamera(Log(c.st, "moveCamera", ""), delta, input,
                  GetTranslationSpeedMultiplier(s, GetCollideableBodies))
          IN [moved EXCEPT !.speed["free"] = GetSpeed(moved, delta, input)]
FreeTimeAlways(s, sync) == TimeIncrement(s, sync)
FreeTime(s, sync) == IF s.config.timeOn THEN TimeIncrement(s, sync) ELSE s
FreeRotate(s) ==
  IF s.config.rotateBodies THEN Log(s, "rotateBodies", "") ELSE s

\* free.animationFrame(delta)
FreeFrame(s, delta, input, sync) ==
  [st |-> Update(FreeRotate(FreeTime(FreeMove(s, delta, input), sync))),
   ret |-> "undefined"]

\* -------------------------------------------------------------------- menu
\* menu.animationFrame: return false
MenuFrameContinue(s) == [st |-> s, ret |-> "undefined"]
MenuFrame(s) == [st |-> s, ret |-> "false"]

\* --------------------------------------------------------- the render loop
\* mode.animationFrame(delta), whatever function it currently is; the value
\* it returns is noted in the trace
AnimationFrame(s, m, delta, input, sync) ==
  LET r == CASE m = "free" -> FreeFrame(s, delta, input, sync)
             [] m = "menu" -> MenuFrame(s)
             [] m = "auto" ->
                  CASE s.autoFrame = "pan" -> PanFrame(s, delta)
                    [] s.autoFrame = "translate" -> TranslateFrame(s, delta)
                    [] OTHER -> [st |-> s, ret |-> "undefined"]
  IN [st |-> Log(r.st, "frameReturn", r.ret), ret |-> r.ret]

\* the callback Mode.animate() hands to the render loop
CallbackNoGate(s, m, delta, input, sync) ==
  AnimationFrame(Log(s, "animationFrame", m), m, delta, input, sync)
Callback(s, m, delta, input, sync) ==
  IF ~s.enabled[m]
  THEN [st |-> Log(s, "stop", m), ret |-> "false"]
  ELSE AnimationFrame(Log(s, "animationFrame", m), m, delta, input, sync)

\* one round of KIMCHI.rendering.animate for a pending callback of mode m
RenderingAnimateAlways(s, m, delta, input, sync) ==
  LET r == Callback(Log(s, "tick", m), m, delta, input, sync)
  IN Log(Log(r.st, "proceed", r.ret), "render", "")
RenderingAnimate(s, m, delta, input, sync) ==
  LET r == Callback(Log(s, "tick", m), m, delta, input, sync)
      s1 == Log(Log(r.st, "proceed", r.ret), "render", "")
  IN IF r.ret # "false" THEN s1
     ELSE [s1 EXCEPT !.loops[m] = @ - 1]

\* -------------------------------------------------------------- key events
\* the name of a key in the call trace
KeyName(which) == IF which = Esc THEN "Esc" ELSE "other"

\* the keydown handler of owner o (auto or menu)
Keydown(s, o, which) ==
  IF which = Esc
  THEN [Log(s, "keydown", o) EXCEPT !.keydownInProgress[o] = TRUE,
                                    !.keyups = Append(@, o)]
  ELSE s

\* the one-shot keyup handler bound by the keydown handler of owner o; each
\* run of a handler is noted in the trace
KeyupNoFlag(s, o, which) ==
  LET s0 == Log(s, "keyup", o)
  IN IF which = Esc
     THEN IF o = "auto" THEN SetMode(s0, "menu")
          ELSE Log(s0, "pointerLock.request", "")
     ELSE s0
Keyup(s, o, which) ==
  LET s0 == Log(s, "keyup", o)
  IN IF which = Esc /\ s0.keydownInProgress[o]
     THEN LET s1 == IF o = "auto" THEN SetMode(s0, "menu")
                    ELSE Log(s0, "pointerLock.request", "")
          IN [s1 EXCEPT !.keydownInProgress[o] = FALSE]
     ELSE s0

RECURSIVE FireKeyups(_, _, _)
\* a keyup event runs every pending one-shot handler once, in binding order
FireKeyups(s, handlers, which) ==
  IF handlers = << >> THEN s
  ELSE FireKeyups(Keyup(s, Head(handlers), which), Tail(handlers), which)

\* a keydown event runs the bound keydown handlers
DocumentKeydown(s, which) ==
  LET s1 == IF s.keydownBound["auto"] > 0 THEN Keydown(s, "auto", which) ELSE s
  IN IF s1.keydownBound["menu"] > 0 THEN Keydown(s1, "menu", which) ELSE s1

\* ----------------------------------------------------------------- actions
\* a collaborator event is counted; a step of the program itself is not
Event(max) == events < max /\ events' = events + 1
Internal == events' = events

\* flight.setMode(name) called by a collaborator (pointer lock, ui)
SetModeCall(name, max) == Event(max) /\ Commit(SetMode(Cur, name))

\* mode.toggle(arg) called on mode m by a collaborator
ToggleCall(m, arg, max) == Event(max) /\ Commit(Toggle(Cur, m, arg))

\* the fly-to click handler of the panel: setMode('auto'); auto.flyTo(body)
FlyToClick(body, max) == Event(max) /\ Commit(FlyTo(SetMode(Cur, "auto"), body))

\* a pending render-loop callback of mode m fires; the clock delta, the
\* user's input and the promise of time.increment() are the environment's
TickWith(m, deltas, inputs, syncs) ==
  /\ loops[m] > 0
  /\ Internal
  /\ \E delta \in deltas, input \in inputs, sync \in syncs :
       Commit(RenderingAnimate(Cur, m, delta, input, sync))

\* the promise of time.increment() resolves
TimeDone ==
  /\ pendingTranslate
  /\ Internal
  /\ Commit(TranslateBodies([Cur EXCEPT !.pendingTranslate = FALSE]))

\* a keydown / keyup event on the document
KeyDownEvent(which, max) ==
  Event(max) /\ Commit(DocumentKeydown(Log(Cur, "keydownEvent", KeyName(which)), which))
KeyUpEvent(which, max) ==
  Event(max) /\
  Commit(FireKeyups([Log(Cur, "keyupEvent", KeyName(which))
                       EXCEPT !.keyups = << >>],
                    keyups, which))

\* a collaborator (hud, controls) asks for the translation speed multiplier;
\* the call and its outcome are noted in the trace
MultiplierCall(arg) ==
  /\ Internal
  /\ \E r \in GetTranslationSpeedMultiplierOutcomes(Cur, arg) :
       Commit(Log(Log(Cur, "getTranslationSpeedMultiplier", ArgName(arg)),
                  "returns", ResultName(r)))

\* the options objects given to the Body constructor: radiusInKm is given
\* or left out
BodyOptions ==
  {[k \in {} |-> 0]} \cup
  {[k \in {"radiusInKm"} |-> r * KmPerAu] : r \in 1..MaxRadius}

\* space constructs a Body from an options object
Construct(options) ==
  /\ newBody' = Body(options)
  /\ UNCHANGED flightVars

\* space scales the main mesh of the Body (the bodies-size-scale setting)
SetScale(scale) ==
  /\ newBody.constructed
  /\ newBody.scale # scale
  /\ newBody' = [newBody EXCEPT !.scale = scale]
  /\ UNCHANGED flightVars

\* the name of a decision of the translate frame in the call trace
DecisionName(keepFlying) == IF keepFlying THEN "continue" ELSE "arrive"

\* both translate frames decide for the Body constructed last, taken to sit
\* at the origin, and the camera where it is; the body's radius and scale
\* and the two decisions are noted in the trace
ExitTest ==
  /\ newBody.constructed
  /\ Internal
  /\ LET d == Abs(camera.position)
         s0 == Log(Log(Cur, "radius", ToString(newBody.radius)),
                   "scale", ToString(newBody.scale))
     IN Commit(Log(Log(s0, "earlier",
                       DecisionName(KeepFlyingEarlier(d, newBody.radius,
                                                      newBody.scale))),
                   "later",
                   DecisionName(KeepFlyingLater(d, newBody.radius,
                                                newBody.scale))))

\* the config pane sets a configuration value
ConfigSet(key, value, max) ==
  /\ config[key] # value
  /\ Event(max)
  /\ Commit([Log(Cur, "config.set", key) EXCEPT !.config[key] = value])

\* the mode machine: mode changes from every source, Escape presses, ticks
\* with the user not steering
Next ==
  \/ \E name \in Modes : SetModeCall(name, MaxEvents)
  \/ \E body \in FlyBodies : FlyToClick(body, MaxEvents)
  \/ \E m \in Modes : TickWith(m, {1}, {0}, {TRUE})
  \/ KeyDownEvent(Esc, MaxEvents)
  \/ KeyUpEvent(Esc, MaxEvents)

Spec == Init /\ [][Next]_vars

\* flying: the user steers in free flight, flies to bodies and pauses; the
\* clock delta varies and the bodies move with every free tick
NextFlight ==
  \/ \E name \in {"free", "menu"} : SetModeCall(name, MaxFlightEvents)
  \/ \E body \in FlyBodies : FlyToClick(body, MaxFlightEvents)
  \/ \E m \in Modes : TickWith(m, Deltas, Inputs, {TRUE})

SpecFlight == Init /\ [][NextFlight]_vars

\* free flight and the menu: the user steers and pauses; the promise of
\* time.increment() resolves within the tick or later
NextFree ==
  \/ \E name \in {"free", "menu"} : SetModeCall(name, MaxFreeEvents)
  \/ \E m \in Modes : TickWith(m, Deltas, Inputs, BOOLEAN)
  \/ TimeDone

SpecFree == Init /\ [][NextFree]_vars

\* an uninterrupted fly-to: the menu is showing, the user clicks a fly-to
\* link, and the render loop keeps ticking
InitMenu ==
  \E p \in CameraStarts :
    Is([SetMode([InitState EXCEPT !.camera.position = p], "menu")
          EXCEPT !.trace = << >>])

MenuFlyToClick(body) == currentMode = "menu" /\ FlyToClick(body, MaxFlights)

NextFlyTo ==
  \/ \E body \in BodyNames : MenuFlyToClick(body)
  \/ \E m \in Modes : TickWith(m, Deltas, {0}, {TRUE})

SpecFlyTo == InitMenu /\ [][NextFlyTo]_vars

\* the keyboard during auto flight: a fly-to has just been started; keys are
\* pressed and released, the mode is changed, and the render loop ticks
InitKeys ==
  Is([FlyTo(SetMode(InitState, "auto"), "Earth") EXCEPT !.trace = << >>])

NextKeys ==
  \/ \E name \in Modes : SetModeCall(name, MaxKeyEvents)
  \/ \E which \in Keys : KeyDownEvent(which, MaxKeyEvents)
  \/ \E which \in Keys : KeyUpEvent(which, MaxKeyEvents)
  \/ \E m \in Modes : TickWith(m, {1}, {0}, {TRUE})

SpecKeys == InitKeys /\ [][NextKeys]_vars

\* the multiplier anywhere in space: the camera is somewhere within reach,
\* the bodies are where the ephemeris puts them, and the multiplier is asked
\* for with every kind of argument
InitMultiplier ==
  \E p \in -MaxPos..MaxPos, tm \in 0..(Period - 1) :
    Is([InitState EXCEPT
          !.camera.position = p,
          !.time = tm,
          !.bodyPosition = [b \in BodyNames |-> Ephemeris(b, tm)]])

NextMultiplier == \E arg \in MultiplierArgs : MultiplierCall(arg)

SpecMultiplier == InitMultiplier /\ [][NextMultiplier]_vars

\* the bodies: Body objects are constructed and scaled
NextBody ==
  \/ \E options \in BodyOptions : Construct(options)
  \/ \E scale \in 1..MaxScale : SetScale(scale)

SpecBody == Init /\ [][NextBody]_vars

\* the settings: the user flies free, pauses and switches time-on and
\* rotate-bodies on and off
NextConfig ==
  \/ \E name \in {"free", "menu"} : SetModeCall(name, MaxConfigEvents)
  \/ \E key \in {"timeOn", "rotateBodies"}, value \in BOOLEAN :
       ConfigSet(key, value, MaxConfigEvents)
  \/ \E m \in Modes : TickWith(m, {1}, Inputs, BOOLEAN)
  \/ TimeDone

SpecConfig == Init /\ [][NextConfig]_vars

\* the two translate frames side by side: the camera is anywhere within
\* reach, a Body is constructed and scaled, and then both frames decide
InitExit ==
  \E p \in -MaxPos..MaxPos : Is([InitState EXCEPT !.camera.position = p])

NextExit ==
  \/ \E options \in BodyOptions : trace = << >> /\ Construct(options)
  \/ \E scale \in 1..MaxScale : trace = << >> /\ SetScale(scale)
  \/ ExitTest

SpecExit == InitExit /\ [][NextExit]_vars

\* a fly-to in mid-flight: the menu is showing, the user clicks a fly-to
\* link and, while the camera pans or translates, another one
NextRetarget ==
  \/ \E body \in BodyNames : FlyToClick(body, MaxRetargets)
  \/ \E m \in Modes : TickWith(m, {1}, {0}, {TRUE})

SpecRetarget == InitMenu /\ [][NextRetarget]_vars

\* setMode with any name: the three modes and a name that is no mode
NextNames ==
  \/ \E name \in Modes \cup {UnknownMode} : SetModeCall(name, MaxNameEvents)
  \/ \E m \in Modes : TickWith(m, {1}, {0}, {TRUE})

SpecNames == Init /\ [][NextNames]_vars

\* Mode.toggle: modes are switched by setMode and toggled directly
NextToggle ==
  \/ \E name \in Modes : SetModeCall(name, MaxToggleEvents)
  \/ \E m \in Modes, arg \in ToggleArgs : ToggleCall(m, arg, MaxToggleEvents)
  \/ \E m \in Modes : TickWith(m, {1}, {0}, {TRUE})

SpecToggle == Init /\ [][NextToggle]_vars

\* the render loop on its own: modes are switched and the browser runs every
\* pending callback sooner or later (setTimeout and requestAnimationFrame
\* always fire); fairness is asked only of the callbacks of disabled modes
NextLoop ==
  \/ \E name \in Modes : SetModeCall(name, MaxLoopEvents)
  \/ \E m \in Modes : TickWith(m, {1}, {0}, {TRUE})

\* a pending callback of a disabled mode fires
StoppedTick(m) == ~enabled[m] /\ TickWith(m, {1}, {0}, {TRUE})

FairLoop == \A m \in Modes : WF_vars(StoppedTick(m))

SpecLoop == Init /\ [][NextLoop]_vars /\ FairLoop

\* ------------------------------------------------------------ trace helpers
HasIn(tr, kind, arg) == \E i \in 1..Len(tr) : tr[i] = <<kind, arg>>
HeadIs(tr, kind, arg) == tr # << >> /\ tr[1] = <<kind, arg>>
IsLifecycle(e) == e[1] \in {"enable", "disable", "currentMode"}
Lifecycle(tr) == SelectSeq(tr, IsLifecycle)
CountIn(tr, kind, arg) == Cardinality({i \in 1..Len(tr) : tr[i] = <<kind, arg>>})
Returned(tr, kind) == {tr[i][2] : i \in {j \in 1..Len(tr) : tr[j][1] = kind}}
EnabledModes == {m \in Modes : enabled[m]}

\* ------------------------------------------------------------------ claims

\* C1: exclusive activation - whatever the sequence of setMode calls (from a
\* collaborator, from the arrival tick of auto flight or from the Escape
\* handler), at most one of the three modes has enabled = true.
C1_ExclusiveActivation == Cardinality(EnabledModes) <= 1
\* menu was entered by the arrival tick of an auto flight
C1_Witness ==
  /\ HeadIs(trace, "tick", "auto")
  /\ HasIn(trace, "currentMode", "menu")
  /\ enabled["menu"]

\* C2: setMode(target) with target already current is a no-op: no enable(),
\* no disable(), no new animation loop, and the pointer and every enabled
\* flag are unchanged.
C2_IdempotentTransition ==
  [][\A n \in Modes :
       (HeadIs(trace', "setMode", n) /\ currentMode = n) =>
         /\ Lifecycle(trace') = << >>
         /\ ~ \E m \in Modes : HasIn(trace', "animate", m)
         /\ currentMode' = currentMode
         /\ enabled' = enabled
         /\ loops' = loops]_vars
\* setMode('free') was just called while free was current
C2_Witness ==
  /\ trace = << <<"setMode", "free">> >>
  /\ currentMode = "free"
  /\ loops["free"] = 1

\* C3: before the first setMode call no mode is enabled and getMode() is the
\* unset value; afterwards exactly one mode is enabled, the one getMode()
\* names.
C3_OneEnabledIsCurrent ==
  IF currentMode = Unset THEN EnabledModes = {}
  ELSE currentMode \in Modes /\ EnabledModes = {currentMode}
\* menu was entered by the Escape handler of auto
C3_Witness ==
  /\ HeadIs(trace, "keyupEvent", "Esc")
  /\ HasIn(trace, "currentMode", "menu")
  /\ currentMode = "menu"

\* C4: a setMode that changes the mode calls disable() of the previous mode
\* once (none on the first call), then enable() of the target once, then
\* updates the pointer; disable() is only called on an enabled mode and
\* enable() only on a disabled one.
C4_TransitionOrdering ==
  [][/\ IF currentMode' # currentMode
        THEN Lifecycle(trace') =
               (IF currentMode \in Modes
                THEN << <<"disable", currentMode>> >> ELSE << >>)
               \o << <<"enable", currentMode'>>,
                     <<"currentMode", currentMode'>> >>
        ELSE Lifecycle(trace') = << >>
     /\ \A m \in Modes :
          /\ HasIn(trace', "disable", m) => enabled[m]
          /\ HasIn(trace', "enable", m) => ~enabled[m]]_vars
\* a transition with a previous mode: disable, enable, pointer
C4_Witness ==
  /\ Len(Lifecycle(trace)) = 3
  /\ HasIn(trace, "disable", "free")
  /\ HasIn(trace, "enable", "auto")

\* C5: the callback registered by Mode.animate() returns false without
\* calling animationFrame when the mode is not enabled, and otherwise calls
\* animationFrame once and returns what it returned; the animationFrame of a
\* mode that is not enabled never runs.
C5_AnimationGate ==
  [][\A m \in Modes :
       /\ HeadIs(trace', "tick", m) =>
            IF ~enabled[m]
            THEN /\ ~ \E k \in Modes : HasIn(trace', "animationFrame", k)
                 /\ Returned(trace', "proceed") = {"false"}
            ELSE /\ CountIn(trace', "animationFrame", m) = 1
                 /\ Cardinality(Returned(trace', "frameReturn")) = 1
                 /\ Returned(trace', "proceed") = Returned(trace', "frameReturn")
       /\ HasIn(trace', "animationFrame", m) => enabled[m]]_vars
\* a pending tick of auto fired after auto was disabled
C5_Witness ==
  /\ HeadIs(trace, "tick", "auto")
  /\ HasIn(trace, "stop", "auto")
  /\ ~enabled["auto"]

\* C6: at most one live animation loop exists per mode, also when a mode is
\* disabled and enabled again before its pending tick has fired.
C6_SingleLoopPerMode == \A m \in Modes : loops[m] <= 1

\* C7: the camera is moved or rotated only inside a tick of the mode that is
\* enabled and current, which is free or auto; a tick that fires after its
\* mode was disabled leaves the camera alone, and menu never touches it.
C7_CameraExclusivity ==
  [][/\ camera' # camera =>
          \E m \in {"free", "auto"} :
            HeadIs(trace', "tick", m) /\ enabled[m] /\ currentMode = m
     /\ \A m \in Modes :
          (HeadIs(trace', "tick", m) /\ (~enabled[m] \/ m = "menu")) =>
            camera' = camera]_vars
\* a pending tick of free fired after free was disabled, the user steering
\* all along (the camera has left its starting point)
C7_Witness ==
  /\ HeadIs(trace, "tick", "free")
  /\ HasIn(trace, "stop", "free")
  /\ currentMode = "menu"
  /\ camera.position # CameraStart

\* C8: from menu, the fly-to click makes auto the current mode; the first
\* translate tick that finds the camera within the body's collision distance
\* makes menu the current mode; free is never enabled or current in between.
C8_FlyToScenario ==
  [][/\ (\E b \in BodyNames : HasIn(trace', "flyTo", b)) =>
          currentMode' = "auto" /\ enabled'["auto"]
     /\ ( /\ HeadIs(trace', "tick", "auto")
          /\ enabled["auto"]
          /\ autoFrame = "translate"
          /\ Abs(bodyPosition[maneuver.body] - camera.position)
               < GetCollisionDistance(maneuver.body) ) =>
          currentMode' = "menu" /\ enabled'["menu"]
     /\ currentMode' # "free"
     /\ ~enabled'["free"]]_vars
\* the flight has arrived: the arrival tick switched to menu
C8_Witness ==
  /\ HeadIs(trace, "tick", "auto")
  /\ HasIn(trace, "setMode", "menu")
  /\ currentMode = "menu"
  /\ autoFrame = "translate"
  /\ events >= 1

\* C9: a translate tick that finds the camera strictly closer to the body's
\* centre than the collision distance switches to menu, returns false and
\* leaves camera position and speed alone; any other translate tick moves the
\* camera forward by z-speed * delta * multiplier([body]), records the speed,
\* runs the auto update and stays in auto.
C9_TranslateStep ==
  [][( /\ HeadIs(trace', "tick", "auto")
       /\ enabled["auto"]
       /\ autoFrame = "translate" ) =>
       LET b == maneuver.body
           d == Abs(bodyPosition[b] - camera.position)
       IN IF d < 2 * Radius(b) * SizeScale
          THEN /\ currentMode' = "menu"
               /\ Returned(trace', "proceed") = {"false"}
               /\ camera' = camera
               /\ speed' = speed
          ELSE /\ \E delta \in Deltas :
                    LET tz == (ZSpeed * delta * d) \div DeltaDen
                    IN /\ camera'.position =
                            camera.position + Forward(camera.quaternion) * tz
                       /\ speed' = [speed EXCEPT
                                      !["auto"] = (tz * DeltaDen) \div delta]
               /\ camera'.quaternion = camera.quaternion
               /\ CountIn(trace', "moveBodyChildren", "") = 1
               /\ CountIn(trace', "hud.update", "") = 1
               /\ currentMode' = "auto"
               /\ enabled'["auto"]
               /\ autoFrame' = "translate"]_vars
\* a translate tick has just moved the camera towards Earth, which it now
\* touches exactly at the collision distance
C9_Witness ==
  /\ HasIn(trace, "translateZ", "Earth")
  /\ currentMode = "auto"
  /\ speed["auto"] > 0
  /\ Abs(bodyPosition["Earth"] - camera.position) = GetCollisionDistance("Earth")

\* C10: after flyTo the pan reaches a tick that sets the orientation with t
\* exactly 1, i.e. exactly the target orientation: while panning a tick of
\* auto is always pending, every pan tick moves t up, t never passes
\* 1 + 0.05, and a tick that finds t between 1 and 1 + 0.05 snaps it to 1.
\* The switch to the translate phase does not happen before the exact tick,
\* and it happens on the first tick that finds t above 1 after the snap.
DblSnapLimit == DblAdd(DblOne, DblStep)
C11_CollisionMonotonicity ==
  [][\A i \in Inputs \ {0} :
       ( /\ HeadIs(trace', "tick", "free")
         /\ enabled["free"]
         /\ HasIn(trace', "getLocalTranslationVector", InputName(i)) ) =>
         LET dir == -i * Forward(camera.quaternion)
             d(b) == Abs(bodyPosition[b] - camera.position)
             r(b) == Radius(b) * SizeScale
             ahead == {b \in BodyNames :
                         /\ Collideable[b]
                         /\ (bodyPosition[b] - camera.position) * dir > 0
                         /\ d(b) >= r(b)}
             near == \E b \in ahead : d(b) - r(b) < 2 * r(b)
         IN /\ HasIn(trace', "raycaster.set", "")
            /\ Returned(trace', "colliding") =
                 {IF near THEN "true" ELSE "false"}
            /\ ahead = {} => ~HasIn(trace', "colliding", "true")]_vars
\* a free tick has just found the camera colliding: it is outside the Sun,
\* flying towards it, and the surface is closer than the collision distance
C11_Witness ==
  /\ HeadIs(trace, "tick", "free")
  /\ HasIn(trace, "colliding", "true")
  /\ ~HasIn(trace, "moveCamera", "")
  /\ Abs(bodyPosition["Sun"] - camera.position) >= GetScaledRadius("Sun")
  /\ Abs(bodyPosition["Sun"] - camera.position) - GetScaledRadius("Sun")
       < GetCollisionDistance("Sun")

\* C12: with a translation vector of length zero, colliding() answers false
\* and casts no ray, however close the camera is to a body - also inside a
\* body's collision distance.
C12_StationaryShortCircuit ==
  [][( /\ HeadIs(trace', "tick", "free")
       /\ enabled["free"]
       /\ HasIn(trace', "getLocalTranslationVector", "0") ) =>
       /\ Returned(trace', "colliding") = {"false"}
       /\ ~HasIn(trace', "raycaster.set", "")
       /\ HasIn(trace', "moveCamera", "")]_vars
\* a free tick with the user not steering has just run with the camera
\* inside a body's collision distance (the bodies did not move in this tick)
C12_Witness ==
  /\ HeadIs(trace, "tick", "free")
  /\ HasIn(trace, "getLocalTranslationVector", "0")
  /\ HasIn(trace, "colliding", "false")
  /\ ~HasIn(trace, "translateBodies", "")
  /\ \E b \in BodyNames :
       Abs(bodyPosition[b] - camera.position) < GetCollisionDistance(b)

\* C13: a maneuver is discarded when auto is left: an auto tick that directly
\* follows a setMode('auto') which enabled auto with no flyTo call neither
\* rotates nor translates the camera, and does not switch to menu.
C13_ManeuverLifetime ==
  [][( /\ HeadIs(trace, "setMode", "auto")
       /\ HasIn(trace, "enable", "auto")
       /\ ~ \E b \in BodyNames : HasIn(trace, "flyTo", b)
       /\ HeadIs(trace', "tick", "auto") ) =>
       /\ camera' = camera
       /\ currentMode' = "auto"
       /\ ~HasIn(trace', "setMode", "menu")]_vars

\* the one-shot keyup handlers of owner o that a keyup event would run
PendingKeyups(o) == {i \in 1..Len(keyups) : keyups[i] = o}

C15_ListenerRelease ==
  [][\A k \in Keys :
       HeadIs(trace', "keyupEvent", KeyName(k)) =>
         /\ HasIn(trace', "setMode", "menu") => enabled["auto"]
         /\ HasIn(trace', "pointerLock.request", "") => enabled["menu"]]_vars

\* C16: menu's animationFrame returns the stop signal every time: a tick of
\* a menu loop ends that loop (each loop started by enable runs one tick at
\* most) and changes neither the camera, the bodies nor the current mode.
C16_MenuTick ==
  [][HeadIs(trace', "tick", "menu") =>
       /\ enabled["menu"] => Returned(trace', "frameReturn") = {"false"}
       /\ Returned(trace', "proceed") = {"false"}
       /\ loops'["menu"] = loops["menu"] - 1
       /\ camera' = camera
       /\ bodyPosition' = bodyPosition
       /\ currentMode' = currentMode]_vars
\* the one tick of the loop of the enabled menu has run; no loop is left
C16_Witness ==
  /\ HeadIs(trace, "tick", "menu")
  /\ HasIn(trace, "animationFrame", "menu")
  /\ currentMode = "menu"
  /\ enabled["menu"]
  /\ loops["menu"] = 0

\* C17: while menu is the current mode no body position changes - not even
\* by the translateBodies call a free tick deferred through
\* time.increment().done(...) before the switch to menu.
C17_MenuFreezesBodies ==
  [][currentMode = "menu" => bodyPosition' = bodyPosition]_vars

\* C18: getTranslationSpeedMultiplier called with an empty array returns a
\* number (the large sentinel) and neither throws nor returns undefined or
\* NaN; called with no argument it returns the smallest camera-to-body
\* distance over all collideable bodies.
C18_MultiplierSentinel ==
  /\ HasIn(trace, "getTranslationSpeedMultiplier", "[]") =>
       Returned(trace, "returns") \cap {"throws", "undefined", "NaN"} = {}
  /\ HasIn(trace, "getTranslationSpeedMultiplier", "omitted") =>
       \E b \in {c \in BodyNames : Collideable[c]} :
         /\ Returned(trace, "returns") =
              {ToString(Abs(bodyPosition[b] - camera.position))}
         /\ \A c \in {c \in BodyNames : Collideable[c]} :
              Abs(bodyPosition[b] - camera.position)
                <= Abs(bodyPosition[c] - camera.position)

\* the margin between the collision distance and the scaled radius
Margin(o) ==
  CollisionDistance(o.radius, o.scale) - ScaledRadius(o.radius, o.scale)

\* C19 as stated: the collision distance is the scaled radius plus a fixed
\* margin - constructing another body or changing the size scale leaves
\* getCollisionDistance() - getScaledRadius() what it was.
C19_FixedMargin ==
  [][(newBody.constructed /\ newBody'.constructed) =>
       Margin(newBody') = Margin(newBody)]_vars
\* C19 as amended: the margin of a body is its own scaled radius, so the
\* collision distance is twice the radius times the size scale.
C19_MarginIsScaledRadius ==
  newBody.constructed =>
    /\ Margin(newBody) = newBody.radius * newBody.scale
    /\ CollisionDistance(newBody.radius, newBody.scale)
         = 2 * newBody.radius * newBody.scale
\* a body of radius 3 at size scale 4: collision distance 24, margin 12
C19_Witness ==
  /\ newBody.constructed
  /\ newBody.radius = 3
  /\ newBody.scale = 4
  /\ Margin(newBody) = 12

\* C20: every constructed Body has radius > 0 and so a collision distance
\* > 0, whatever options object the constructor was given - also one
\* without radiusInKm.
C20_PositiveRadius ==
  newBody.constructed =>
    /\ newBody.radius > 0
    /\ CollisionDistance(newBody.radius, newBody.scale) > 0

\* the places in a step's trace of the callback of mode m and of the render
CallbackAt(tr, m) ==
  {i \in 1..Len(tr) : tr[i] \in {<<"animationFrame", m>>, <<"stop", m>>}}
RenderAt(tr) == {i \in 1..Len(tr) : tr[i] = <<"render", "">>}

\* C21: one round of the render loop calls the callback once and renders once,
\* the callback first; if the callback returned false the round schedules no
\* further one (the mode has one pending callback less), otherwise exactly
\* one (as many as before). Under fair ticks a mode that is disabled and not
\* enabled again ends up with no pending callback, and a mode with no
\* pending callback gets one only by being enabled.
C21_RenderLoopScheduling ==
  /\ [][\A m \in Modes :
          HeadIs(trace', "tick", m) =>
            /\ Cardinality(CallbackAt(trace', m)) = 1
            /\ Cardinality(RenderAt(trace')) = 1
            /\ \A i \in CallbackAt(trace', m), j \in RenderAt(trace') : i < j
            /\ loops'[m] = IF Returned(trace', "proceed") = {"false"}
                           THEN loops[m] - 1 ELSE loops[m]]_vars
  /\ [][\A m \in Modes :
          (loops[m] = 0 /\ loops'[m] > 0) => HasIn(trace', "enable", m)]_vars
  /\ \A m \in Modes : ~enabled[m] ~> (enabled[m] \/ loops[m] = 0)
\* free was enabled twice and then disabled: the last of its two pending
\* callbacks has just fired and stopped
C21_Witness ==
  /\ HeadIs(trace, "tick", "free")
  /\ HasIn(trace, "stop", "free")
  /\ ~enabled["free"]
  /\ loops["free"] = 0
  /\ events = MaxLoopEvents

\* C22: an uninterrupted fly-to to a body that stands still ends with a
\* translate tick that finds the camera within the body's collision distance,
\* whatever the clock deltas: the camera never flies past the body and away
\* from it. While auto translates, the camera is therefore within the
\* collision distance or has the body ahead of it (the translate phase never
\* turns the camera, so with the body behind it every later tick takes it
\* farther away).
C22_AutoFlightTermination ==
  (currentMode = "auto" /\ autoFrame = "translate") =>
    LET b == maneuver.body
        d == bodyPosition[b] - camera.position
    IN \/ Abs(d) < GetCollisionDistance(b)
       \/ d * Forward(camera.quaternion) > 0

\* C23: the phases of a fly-to come one after the other. A tick translates
\* the camera only in the translate phase, which starts only after a pan tick
\* with t = 1; pan ticks (the only ones that turn the camera) run only in the
\* pan phase, and the translate phase lasts, with the orientation unchanged,
\* until the next flyTo. The switch from pan to translate is made by a tick
\* of auto that replaces animationFrame and calls neither setMode, enable nor
\* disable and starts no loop; auto stays enabled and current from flyTo to
\* the arrival tick.
C23_PhaseOrder ==
  [][/\ (\E b \in BodyNames : HasIn(trace', "translateZ", b)) =>
          autoFrame = "translate" /\ panExact
     /\ (\E a \in {"t", "1"} : HasIn(trace', "slerp", a)) => autoFrame = "pan"
     /\ (autoFrame = "translate" /\
          ~ \E b \in BodyNames : HasIn(trace', "flyTo", b)) =>
          /\ autoFrame' = "translate"
          /\ camera'.quaternion = camera.quaternion
     /\ (autoFrame = "pan" /\ autoFrame' = "translate") =>
          /\ panExact
          /\ HeadIs(trace', "tick", "auto")
          /\ ~ \E m \in Modes : HasIn(trace', "setMode", m)
          /\ Lifecycle(trace') = << >>
          /\ ~ \E m \in Modes : HasIn(trace', "animate", m)
          /\ loops' = loops
          /\ currentMode = "auto" /\ currentMode' = "auto"
          /\ enabled' = enabled
          /\ enabled["auto"]
     /\ autoFrame' = "pan" => currentMode' = "auto" /\ enabled'["auto"]
     /\ (currentMode = "auto" /\ currentMode' # "auto") =>
          /\ HeadIs(trace', "tick", "auto")
          /\ autoFrame = "translate"
          /\ Abs(bodyPosition[maneuver.body] - camera.position)
               < GetCollisionDistance(maneuver.body)]_vars
\* the tick that hands over from pan to translate has just run: the camera
\* has turned half a turn onto the target and has not been translated
C23_Witness ==
  /\ HeadIs(trace, "tick", "auto")
  /\ autoFrame = "translate"
  /\ ~ \E b \in BodyNames : HasIn(trace, "translateZ", b)
  /\ ~HasIn(trace, "setMode", "menu")
  /\ currentMode = "auto"
  /\ panExact
  /\ maneuver.initialQuaternion # maneuver.targetQuaternion
  /\ camera.quaternion = maneuver.targetQuaternion
  /\ maneuver.t = DblSnapLimit

\* C24: every tick of auto between flyTo and arrival (the arrival tick, which
\* switches to menu, left aside) runs the auto update once: body children
\* are advanced once and the hud is updated once - also on the tick that
\* hands over from the pan phase to the translate phase.
C24_AutoUpdateEveryTick ==
  [][( /\ HeadIs(trace', "tick", "auto")
       /\ enabled["auto"]
       /\ autoFrame \in {"pan", "translate"}
       /\ currentMode' = "auto" ) =>
       /\ CountIn(trace', "moveBodyChildren", "") = 1
       /\ CountIn(trace', "hud.update", "") = 1]_vars

\* C25: a tick of the pan phase changes, of the camera and the maneuver, only
\* the camera's orientation (and t): the orientation becomes the
\* interpolation at t between the orientation captured at flyTo and the
\* target orientation; the camera position, the recorded speeds, the
\* captured orientation, the target orientation and the target body stay.
C25_PanFrameEffect ==
  [][( /\ HeadIs(trace', "tick", "auto")
       /\ enabled["auto"]
       /\ autoFrame = "pan" ) =>
       LET t == IF DblLess(DblOne, maneuver.t) /\ maneuver.t # DblSnapLimit
                THEN DblOne ELSE maneuver.t
       IN /\ camera'.position = camera.position
          /\ speed' = speed
          /\ maneuver'.initialQuaternion = maneuver.initialQuaternion
          /\ maneuver'.targetQuaternion = maneuver.targetQuaternion
          /\ maneuver'.body = maneuver.body
          /\ bodyPosition' = bodyPosition
          /\ IF autoFrame' = "pan"
             THEN camera'.quaternion =
                    Slerp(maneuver.initialQuaternion,
                          maneuver.targetQuaternion, t)
             ELSE camera'.quaternion = camera.quaternion]_vars
\* a pan tick has just turned the camera a quarter of the half turn it has to
\* make; the camera is where it was when flyTo was called
C25_Witness ==
  /\ HeadIs(trace, "tick", "auto")
  /\ HasIn(trace, "slerp", "t")
  /\ autoFrame = "pan"
  /\ maneuver.initialQuaternion = 0
  /\ maneuver.targetQuaternion = HalfTurn
  /\ camera.quaternion = 1
  /\ camera.position \in CameraStarts

\* C26: the interpolation parameter t of a maneuver is never below 0 and
\* never above 1 + 0.05, one increment past 1; and whenever a tick evaluates
\* the interpolation, the t it uses (the stored t, snapped to 1 if it lies
\* strictly between 1 and 1 + 0.05) is at most 1.
C26_InterpolationRange ==
  /\ [](DblLeq(DblZero, maneuver.t) /\ DblLeq(maneuver.t, DblSnapLimit))
  /\ [][(\E a \in {"t", "1"} : HasIn(trace', "slerp", a)) =>
          LET t == IF DblLess(DblOne, maneuver.t) /\
                      DblLess(maneuver.t, DblSnapLimit)
                   THEN DblOne ELSE maneuver.t
          IN /\ DblLeq(DblZero, t) /\ DblLeq(t, DblOne)
             /\ HasIn(trace', "slerp", "1") <=> t = DblOne]_vars
\* t has come to lie one increment past 1: the tick that snapped t to 1 and
\* interpolated there has just run
C26_Witness ==
  /\ HeadIs(trace, "tick", "auto")
  /\ HasIn(trace, "slerp", "1")
  /\ maneuver.t = DblSnapLimit
  /\ DblLess(DblOne, maneuver.t)

\* the smallest distance from position p to a collideable body
Closest(p) ==
  Min({Abs(bodyPosition[b] - p) : b \in {c \in BodyNames : Collideable[c]}})

\* C27: a free tick on which colliding() is true leaves the camera and the
\* recorded speeds as they were (the speed of free keeps the value of the
\* previous tick, it is not set to 0); a free tick on which colliding() is
\* false moves the camera along its local z axis by z-speed * delta * the
\* closest distance over all collideable bodies and records the new speed.
C27_FreeTickColliding ==
  [][( /\ HeadIs(trace', "tick", "free")
       /\ enabled["free"] ) =>
       IF HasIn(trace', "colliding", "true")
       THEN /\ camera' = camera
            /\ speed' = speed
            /\ ~HasIn(trace', "moveCamera", "")
       ELSE \E delta \in Deltas, input \in Inputs :
              LET dir == -input * Forward(camera.quaternion)
                  step == (ZSpeed * delta * Closest(camera.position))
                            \div DeltaDen
                  p == camera.position + dir * step
              IN /\ HasIn(trace', "getLocalTranslationVector", InputName(input))
                 /\ CountIn(trace', "moveCamera", "") = 1
                 /\ camera' = [camera EXCEPT !.position = p]
                 /\ speed' = [speed EXCEPT !["free"] =
                                (Abs(input) * ZSpeed * Closest(p) * DeltaDen)
                                  \div delta]]_vars
\* a free tick has just found the camera colliding: the camera has not
\* moved and the speed of free is still the one of an earlier tick, not 0
C27_Witness ==
  /\ HeadIs(trace, "tick", "free")
  /\ HasIn(trace, "colliding", "true")
  /\ ~HasIn(trace, "moveCamera", "")
  /\ speed["free"] > 0

\* C28: every free tick, colliding or not, advances the body children once
\* and updates the hud once; it increments the time (and so has the bodies
\* translated) exactly if time-on is set, and rotates the bodies exactly if
\* rotate-bodies is set.
C28_FreeTickSideEffects ==
  [][( /\ HeadIs(trace', "tick", "free")
       /\ enabled["free"] ) =>
       /\ CountIn(trace', "moveBodyChildren", "") = 1
       /\ CountIn(trace', "hud.update", "") = 1
       /\ CountIn(trace', "time.increment", "") =
            (IF config.timeOn THEN 1 ELSE 0)
       /\ CountIn(trace', "rotateBodies", "") =
            (IF config.rotateBodies THEN 1 ELSE 0)
       /\ ~config.timeOn =>
            /\ ~HasIn(trace', "translateBodies", "")
            /\ time' = time
            /\ bodyPosition' = bodyPosition
            /\ pendingTranslate' = pendingTranslate
       /\ config.timeOn =>
            \/ CountIn(trace', "translateBodies", "") = 1
            \/ pendingTranslate']_vars
\* a free tick has just run with the camera colliding, time-on off and
\* rotate-bodies on: children and hud were updated, the bodies rotated
C28_Witness ==
  /\ HeadIs(trace, "tick", "free")
  /\ HasIn(trace, "colliding", "true")
  /\ ~config.timeOn
  /\ config.rotateBodies
  /\ HasIn(trace, "rotateBodies", "")
  /\ HasIn(trace, "hud.update", "")
  /\ ~HasIn(trace, "time.increment", "")

\* C29: the resources of menu and free follow the current mode. While menu
\* is current the overlay is shown, the clock is stopped and menu's keydown
\* handler is bound; while free is current the hud is shown and the controls
\* are enabled. A step that leaves menu hides the overlay, starts the clock
\* and unbinds the handler, and they stay so until menu is entered again; a
\* step that leaves free hides the hud and disables the controls, and they
\* stay so until free is entered again.
C29_ModeResources ==
  /\ []((currentMode = "menu" =>
            (ui.overlay /\ ~ui.clock /\ keydownBound["menu"] = 1))
         /\ (currentMode = "free" => (ui.hud /\ ui.controls)))
  /\ [][/\ (currentMode = "menu" /\ currentMode' # "menu") =>
             ~ui'.overlay /\ ui'.clock /\ keydownBound'["menu"] = 0
        /\ (currentMode # "menu" /\ currentMode' # "menu") =>
             /\ ui'.overlay = ui.overlay
             /\ ui'.clock = ui.clock
             /\ keydownBound'["menu"] = keydownBound["menu"]
        /\ (currentMode = "free" /\ currentMode' # "free") =>
             ~ui'.hud /\ ~ui'.controls
        /\ (currentMode # "free" /\ currentMode' # "free") =>
             ui'.hud = ui.hud /\ ui'.controls = ui.controls]_vars
\* after three mode changes or more auto has just been left for menu:
\* menu's resources are up, free's are down
C29_Witness ==
  /\ currentMode = "menu"
  /\ HasIn(trace, "disable", "auto")
  /\ events >= 3
  /\ ui.overlay /\ ~ui.clock /\ keydownBound["menu"] = 1
  /\ ~ui.hud /\ ~ui.controls

\* C30: the keydownInProgress flag keeps the one-shot keyup handlers from
\* piling up: however many Escape keydown events arrive with no keyup in
\* between (a held key repeats), each keydown closure has at most one keyup
\* handler pending.
C30_SingleKeyupHandler ==
  \A o \in KeyOwners : Cardinality(PendingKeyups(o)) <= 1

\* C31: toggle(true) enables the mode, toggle(false) disables it, and
\* toggle() with no boolean argument flips the enabled flag: an enabled mode
\* becomes disabled, a disabled mode becomes enabled.
C31_ModeToggle ==
  [][\A m \in Modes :
       HeadIs(trace', "toggle", m) =>
         /\ HasIn(trace', "toggleArg", "true") => enabled'[m]
         /\ HasIn(trace', "toggleArg", "false") => ~enabled'[m]
         /\ HasIn(trace', "toggleArg", "none") => enabled'[m] = ~enabled[m]]_vars

\* the trace holds the decisions of the two translate frames for the Body
\* as it is now
ExitTested ==
  /\ newBody.constructed
  /\ HasIn(trace, "radius", ToString(newBody.radius))
  /\ HasIn(trace, "scale", ToString(newBody.scale))

\* C32 as stated: the two tests of the translate frame decide alike for
\* every distance and every body - the earlier one (centre distance minus
\* body radius >= collision distance: keep flying) and the later one (not
\* body.isColliding(camera): keep flying).
C32_ExitEquivalence ==
  ExitTested =>
    (HasIn(trace, "earlier", "continue") <=> HasIn(trace, "later", "continue"))
\* C32 as amended: the earlier test keeps flying only where the later one
\* does, and the two decide differently exactly when the centre distance is
\* at least the collision distance and less than the collision distance
\* plus the body's radius; there the earlier test arrives and the later one
\* keeps flying. They decide alike for every distance only for radius 0.
C32_ExitGap ==
  ExitTested =>
    LET d == Abs(camera.position)
        cd == 2 * newBody.radius * newBody.scale
        gap == cd <= d /\ d < cd + newBody.radius
        same == HasIn(trace, "earlier", "continue") <=>
                HasIn(trace, "later", "continue")
    IN /\ HasIn(trace, "earlier", "continue") => HasIn(trace, "later", "continue")
       /\ gap <=> (HasIn(trace, "earlier", "arrive") /\
                   HasIn(trace, "later", "continue"))
       /\ gap <=> ~same
       /\ newBody.radius = 0 => same
\* a body of radius 2 and the camera 5 from its centre: the earlier test
\* arrives (5 - 2 < 4), the later one keeps flying (5 >= 4)
C32_Witness ==
  /\ ExitTested
  /\ newBody.radius = 2
  /\ newBody.scale = 1
  /\ Abs(camera.position) = 5
  /\ HasIn(trace, "earlier", "arrive")
  /\ HasIn(trace, "later", "continue")

\* C33: getSpeed() is the speed field of the current mode and is 0 whenever
\* menu is current. A speed field changes only in a tick of its own mode,
\* free or auto, that moves the camera; enable() and disable() leave it, so
\* a mode entered again still has the speed of its last moving tick.
C33_ReportedSpeed ==
  /\ [](/\ currentMode \in Modes => FlightGetSpeed(Cur) = speed[currentMode]
        /\ currentMode = "menu" => FlightGetSpeed(Cur) = 0)
  /\ [][\A m \in Modes :
          /\ speed'[m] # speed[m] =>
               /\ m # "menu"
               /\ HeadIs(trace', "tick", m)
               /\ enabled[m]
               /\ \/ HasIn(trace', "moveCamera", "")
                  \/ \E b \in BodyNames : HasIn(trace', "translateZ", b)
          /\ (HasIn(trace', "enable", m) \/ HasIn(trace', "disable", m)) =>
               speed'[m] = speed[m]]_vars
\* auto was left in mid-flight and has just been entered again by setMode:
\* getSpeed() is the speed of the last translate tick
C33_Witness ==
  /\ HeadIs(trace, "setMode", "auto")
  /\ HasIn(trace, "enable", "auto")
  /\ currentMode = "auto"
  /\ speed["auto"] > 0
  /\ FlightGetSpeed(Cur) = speed["auto"]

\* C34: flyTo switches time-on off and nothing in the flight modes switches
\* it on again - not the arrival, not disable(), not any setMode; only the
\* configuration being set from outside does. While time-on is off a free
\* tick neither increments the time nor moves a body.
C34_FlyToSuspendsTime ==
  [][/\ (\E b \in BodyNames : HasIn(trace', "flyTo", b)) => ~config'.timeOn
     /\ (~config.timeOn /\ config'.timeOn) =>
          HeadIs(trace', "config.set", "timeOn")
     /\ ( /\ ~config.timeOn
          /\ HeadIs(trace', "tick", "free")
          /\ enabled["free"] ) =>
          /\ ~HasIn(trace', "time.increment", "")
          /\ ~HasIn(trace', "translateBodies", "")
          /\ time' = time
          /\ bodyPosition' = bodyPosition]_vars
\* after a fly-to the user is back in free flight and a free tick has just
\* moved the camera: time-on is still off and the time has not moved
C34_Witness ==
  /\ HeadIs(trace, "tick", "free")
  /\ HasIn(trace, "moveCamera", "")
  /\ autoFrame # "noop"
  /\ ~config.timeOn
  /\ time = 0
  /\ ~HasIn(trace, "time.increment", "")

\* C35: setMode with a name that is none of free, auto, menu fails and
\* changes nothing: the mode that was current stays enabled with its
\* resources, the pointer stays, and the pointer never names a mode that is
\* not enabled.
C35_UnknownModeRejected ==
  /\ [][HeadIs(trace', "setMode", UnknownMode) =>
          /\ currentMode' = currentMode
          /\ enabled' = enabled
          /\ loops' = loops
          /\ ui' = ui
          /\ keydownBound' = keydownBound]_vars
  /\ [](currentMode \in Modes => enabled[currentMode])

\* C36: setMode('auto') and flyTo(body) while auto is enabled, in the pan or
\* in the translate phase, start the maneuver anew: t is 0, the initial
\* orientation is the camera's present one, the target is the new body, the
\* pan frame is installed, and no loop is started nor the mode disabled or
\* enabled. From then on a tick of auto pans between the orientations of
\* the new maneuver and translates towards its body only.
C36_FlyToRestarts ==
  [][/\ \A b \in BodyNames :
          (HasIn(trace', "flyTo", b) /\ enabled["auto"]) =>
            /\ maneuver' = [body |-> b,
                            initialQuaternion |-> camera.quaternion,
                            targetQuaternion |->
                              LookAt(camera.position, bodyPosition[b]),
                            t |-> DblZero]
            /\ autoFrame' = "pan"
            /\ camera' = camera
            /\ loops' = loops
            /\ enabled' = enabled
            /\ Lifecycle(trace') = << >>
            /\ ~ \E m \in Modes : HasIn(trace', "animate", m)
     /\ (HeadIs(trace', "tick", "auto") /\ enabled["auto"]) =>
          /\ \A b \in BodyNames :
               HasIn(trace', "translateZ", b) =>
                 /\ b = maneuver.body
                 /\ Abs(bodyPosition[b] - camera'.position)
                      < Abs(bodyPosition[b] - camera.position)
          /\ camera'.quaternion # camera.quaternion =>
               /\ autoFrame = "pan"
               /\ Abs(maneuver.targetQuaternion - camera'.quaternion)
                    < Abs(maneuver.targetQuaternion - camera.quaternion)
          /\ maneuver'.body = maneuver.body
          /\ maneuver'.targetQuaternion = maneuver.targetQuaternion]_vars
\* the camera was translating towards Earth when the fly-to link of the Sun
\* was clicked: a new maneuver towards the Sun has just begun, on the one
\* loop of auto
C36_Witness ==
  /\ HeadIs(trace, "setMode", "auto")
  /\ HasIn(trace, "flyTo", "Sun")
  /\ ~HasIn(trace, "enable", "auto")
  /\ speed["auto"] > 0
  /\ maneuver.body = "Sun"
  /\ maneuver.t = DblZero
  /\ maneuver.initialQuaternion # maneuver.targetQuaternion
  /\ autoFrame = "pan"
  /\ loops["auto"] = 1

====
